---- MODULE Spec2Model ----
(***************************************************************************)
(* The Camera page component (src/src/pages/camera.tsx): a React function  *)
(* component with six state cells, a <video> ref, one effect keyed on       *)
(* appState that requests the camera and releases it in its cleanup, and   *)
(* an asynchronous upload handler (applyFilter).                           *)
(*                                                                         *)
(* Every event handler is one action: the handler's state updates, the     *)
(* re-render they cause and the effect cleanup / effect body of that        *)
(* commit.  The two suspension points of the code (await getUserMedia,     *)
(* await upload) split startCamera and applyFilter into a request action   *)
(* and a completion action; the requests in flight are state.              *)
(***************************************************************************)
EXTENDS Integers, FiniteSets, Sequences, TLC

\* ---------------------------------------------------------------- bounds
MaxStreams == 2   \* camera requests and live streams outstanding at once
MaxUploads == 3   \* uploads started over a run
MaxMounts  == 2   \* times the component is mounted over a run
MaxFrame   == 1   \* distinct pictures the live video can show

\* ------------------------------------------------------------- constants
NumFilters == 4   \* filterImages has ids 1..4

\* an optional value: Null, or Some(v) holding v
Null == <<>>
Some(v) == <<v>>
Val(o) == o[1]

FilterIds == 1..NumFilters
Frames    == 1..MaxFrame

ErrorMessage == "Failed to upload image. Please try again."

AppStates == {"camera", "preview", "processing"}

VARIABLES
    mounted,        \* the component is mounted
    inst,           \* number of the current (or last) component instance
    appState,       \* useState: "camera" | "preview" | "processing"
    capturedImage,  \* useState: data URL of the captured frame, or Null
    selectedFilter, \* useState: filter id, or Null
    processedImage, \* useState: public URL of the upload, or Null
    isUploading,    \* useState: boolean
    error,          \* useState: message, or Null
    srcObject,      \* videoRef.current.srcObject: stream id, or Null
    camRequests,    \* getUserMedia calls awaiting their result
    liveStreams,    \* the streams obtained whose tracks have not been stopped
    uploads,        \* upload calls awaiting the storage service's answer
    now,            \* Date.now(), counted in filter picks
    last            \* the last handler that ran, with what it saw and did

vars == <<mounted, inst, appState, capturedImage, selectedFilter,
          processedImage, isUploading, error, srcObject, camRequests,
          liveStreams, uploads, now, last>>

compState == <<appState, capturedImage, selectedFilter, processedImage,
               isUploading, error>>
camVars   == <<srcObject, camRequests, liveStreams>>
upVars    == <<uploads, now>>

\* ------------------------------------------------------- pure functions

\* canvas.toDataURL("image/png") of the frame drawn from the video.  A video
\* with no stream has videoWidth = videoHeight = 0; a 0x0 canvas serialises
\* to the string "data:," (frame 0 stands for it).
ToDataURL(frame) ==
    IF frame = 0
    THEN [header |-> "data:", body |-> <<>>]
    ELSE [header |-> "data:image/png;base64", body |-> <<"b64", frame>>]

\* atob: decodes the base64 body into the bytes it encodes
Atob(body) == IF body = <<>> THEN 0 ELSE body[2]

\* dataURLtoFile: the mime is what stands between ':' and ';' of the header
\* (undefined when the header has no ';', giving a File of type "")
DataURLtoFile(dataurl, filename) ==
    [name  |-> filename,
     type  |-> IF dataurl.header = "data:image/png;base64"
               THEN "image/png" ELSE "",
     bytes |-> Atob(dataurl.body)]

\* `photo-${Date.now()}.png`
PhotoName(t) == <<"photo-", t, ".png">>

\* `originals/${imageFile.name}`
OriginalsPath(name) == <<"originals/">> \o name

\* getPublicUrl(path).data.publicUrl
PublicUrl(path) == <<"public/">> \o path

\* ------------------------------------------------------------ rendering

\* videoRef.current is the <video> element, rendered in the camera branch only
VideoRefCurrent == mounted /\ appState = "camera"

\* canvasRef.current: the hidden canvas is rendered in every state
CanvasRefCurrent == mounted

\* the three branches of the render
CameraView     == mounted /\ appState = "camera"
PreviewView    == mounted /\ appState = "preview" /\ capturedImage # Null
ProcessingView == mounted /\ appState = "processing"
ErrorView      == ProcessingView /\ error # Null
SpinnerView    == ProcessingView /\ error = Null /\ processedImage = Null
ResultView     == ProcessingView /\ error = Null /\ processedImage # Null

\* controls the render exposes
ShutterEnabled      == CameraView
RetakeEnabled       == PreviewView
\* the filter tiles rendered in the processing branch as well
FilterPickEnabled_InProcessing ==
    mounted /\ appState \in {"preview", "processing"} /\ capturedImage # Null
FilterPickEnabled   == PreviewView
TryAgainEnabled     == ErrorView
TakeNewPhotoEnabled == ResultView
DownloadEnabled     == ResultView

\* ------------------------------------------------------------- streams

ActiveStreams == liveStreams

\* stream identities in use: requested and not settled, or obtained and live
StreamsInUse == {r.id : r \in camRequests} \cup liveStreams

\* the identity of the next stream requested
FreshStream ==
    CHOOSE s \in 1..(MaxStreams + 1) :
        s \notin StreamsInUse /\ \A t \in 1..(s - 1) : t \in StreamsInUse

\* getUserMedia calls of the current instance that have not settled
PendingCamRequests == {r \in camRequests : mounted /\ r.inst = inst}

\* upload calls that have not settled
UploadsInFlight == uploads

\* ------------------------------------------------------------- the effect

\* Effect cleanup (lines 65-70), run when appState leaves "camera" or the
\* component unmounts: stops the tracks of videoRef.current.srcObject.  The
\* <video> is removed in the same commit; refAttached tells whether
\* videoRef.current still points to it when the cleanup reads the ref
\* (React detaches the ref of a removed element during the commit, the
\* cleanup of a passive effect runs around that point, the order depending
\* on the React version and on whether the whole component is going away).
CleanupTracks(refAttached) ==
    IF refAttached /\ srcObject # Null
    THEN liveStreams \ {Val(srcObject)}
    ELSE liveStreams

\* what the cleanup can leave behind
EffectCleanup == {CleanupTracks(refAttached) : refAttached \in BOOLEAN}

\* Effect body (lines 47-62): startCamera issues one getUserMedia call
StartCamera(i) ==
    camRequests' = camRequests \cup {[id |-> FreshStream, inst |-> i]}

\* ----------------------------------------------------------------- Init

Init ==
    /\ mounted = TRUE
    /\ inst = 1
    /\ appState = "camera"
    /\ capturedImage = Null
    /\ selectedFilter = Null
    /\ processedImage = Null
    /\ isUploading = FALSE
    /\ error = Null
    /\ srcObject = Null
    /\ camRequests = {[id |-> 1, inst |-> 1]}
    /\ liveStreams = {}
    /\ uploads = {}
    /\ now = 0
    /\ last = [op |-> "mount"]

\* -------------------------------------------------------------- actions

\* await getUserMedia resolves with a stream (lines 50-56)
GetUserMediaResolve ==
    \E r \in camRequests :
       /\ camRequests' = camRequests \ {r}
       /\ liveStreams' = liveStreams \cup {r.id}
       /\ srcObject' = IF r.inst = inst /\ VideoRefCurrent
                       THEN Some(r.id) ELSE srcObject
       /\ last' = [op |-> "getUserMedia"]
       /\ UNCHANGED <<mounted, inst, compState, upVars>>

\* await getUserMedia rejects (lines 57-59): logged only
GetUserMediaReject ==
    \E r \in camRequests :
       /\ camRequests' = camRequests \ {r}
       /\ last' = [op |-> "getUserMedia"]
       /\ UNCHANGED <<mounted, inst, compState, srcObject, liveStreams,
                      upVars>>

\* the frame the video holds when the shutter is pressed (lines 81-87).  With
\* no live stream bound the video has videoWidth = videoHeight = 0 and there
\* is nothing to draw (frame 0).  Binding the stream (line 55) does not give
\* the video a frame at once: until its first frame has loaded it still has
\* videoWidth = 0, so a bound stream shows one of the scene's pictures or
\* nothing yet.
VideoFrames ==
    IF srcObject # Null /\ Val(srcObject) \in liveStreams
    THEN Frames \cup {0}
    ELSE {0}

\* shutter button (lines 75-95) and the commit that leaves the camera view
takePicture ==
    /\ ShutterEnabled
    /\ VideoRefCurrent /\ CanvasRefCurrent
    /\ \E frame \in VideoFrames :
          /\ capturedImage' = Some(ToDataURL(frame))
          /\ appState' = "preview"
    /\ liveStreams' \in EffectCleanup
    /\ srcObject' = Null
    /\ last' = [op |-> "takePicture"]
    /\ UNCHANGED <<mounted, inst, selectedFilter, processedImage, isUploading,
                   error, camRequests, upVars>>

\* retakePicture without its setSelectedFilter(null)
retakePicture_KeepsFilter ==
    /\ RetakeEnabled \/ TakeNewPhotoEnabled
    /\ Cardinality(StreamsInUse) < MaxStreams
    /\ capturedImage' = Null
    /\ appState' = "camera"
    /\ StartCamera(inst)
    /\ last' = [op |-> "retakePicture"]
    /\ UNCHANGED <<mounted, inst, selectedFilter, processedImage, isUploading,
                   error, srcObject, liveStreams, upVars>>

\* retake button / Take New Photo button (lines 98-102) and the commit that
\* enters the camera view, whose effect calls startCamera
retakePicture ==
    /\ RetakeEnabled \/ TakeNewPhotoEnabled
    /\ Cardinality(StreamsInUse) < MaxStreams
    /\ capturedImage' = Null
    /\ selectedFilter' = Null
    /\ appState' = "camera"
    /\ StartCamera(inst)
    /\ last' = [op |-> "retakePicture"]
    /\ UNCHANGED <<mounted, inst, processedImage, isUploading, error, srcObject,
                   liveStreams, upVars>>

\* applyFilter without its setError(null)
applyFilter_KeepsError(filterId) ==
    /\ FilterPickEnabled
    /\ now < MaxUploads
    /\ selectedFilter' = Some(filterId)
    /\ appState' = "processing"
    /\ isUploading' = TRUE
    /\ now' = now + 1
    /\ LET imageFile == DataURLtoFile(Val(capturedImage), PhotoName(now + 1))
       IN  uploads' = uploads \cup
                {[path |-> OriginalsPath(imageFile.name), file |-> imageFile,
                  inst |-> inst]}
    /\ last' = [op |-> "applyFilter", hadError |-> error # Null]
    /\ UNCHANGED <<mounted, inst, capturedImage, processedImage, error, camVars>>

\* a filter tile is clicked (lines 105-125): applyFilter up to its await.
\* capturedImage is the value of the render the click happened in.
applyFilter(filterId) ==
    /\ FilterPickEnabled
    /\ now < MaxUploads
    /\ selectedFilter' = Some(filterId)
    /\ appState' = "processing"
    /\ error' = Null
    /\ isUploading' = TRUE
    /\ now' = now + 1
    /\ LET imageFile == DataURLtoFile(Val(capturedImage), PhotoName(now + 1))
       IN  uploads' = uploads \cup
                {[path |-> OriginalsPath(imageFile.name), file |-> imageFile,
                  inst |-> inst]}
    /\ last' = [op |-> "applyFilter", hadError |-> error # Null]
    /\ UNCHANGED <<mounted, inst, capturedImage, processedImage, camVars>>

\* the instance that issued the call is still the mounted one; the state
\* setters of an unmounted instance do nothing
Alive(u) == mounted /\ u.inst = inst

\* await upload answers without an error (lines 127-137)
UploadSucceed ==
    \E u \in uploads :
       /\ uploads' = uploads \ {u}
       /\ IF Alive(u)
          THEN /\ processedImage' = Some(PublicUrl(u.path))
               /\ isUploading' = FALSE
          ELSE UNCHANGED <<processedImage, isUploading>>
       /\ last' = [op |-> "uploadSucceed", alive |-> Alive(u)]
       /\ UNCHANGED <<mounted, inst, appState, capturedImage, selectedFilter,
                      error, camVars, now>>

\* the catch block issuing the upload of the same file again
UploadFail_Retries ==
    \E u \in uploads :
       /\ uploads' = (uploads \ {u}) \cup
                         {[path |-> OriginalsPath(PhotoName(0)),
                           file |-> u.file, inst |-> u.inst]}
       /\ IF Alive(u)
          THEN /\ error' = Some(ErrorMessage)
               /\ isUploading' = FALSE
               /\ appState' = "preview"
               /\ IF appState = "camera"
                  THEN /\ liveStreams' \in EffectCleanup
                       /\ srcObject' = Null
                  ELSE UNCHANGED <<liveStreams, srcObject>>
          ELSE UNCHANGED <<error, isUploading, appState, liveStreams, srcObject>>
       /\ last' = [op |-> "uploadFail", alive |-> Alive(u)]
       /\ UNCHANGED <<mounted, inst, capturedImage, selectedFilter,
                      processedImage, camRequests, now>>

\* await upload answers with an error or throws (lines 127-129, 138-143); a
\* commit that leaves the camera view runs the effect cleanup
UploadFail ==
    \E u \in uploads :
       /\ uploads' = uploads \ {u}
       /\ IF Alive(u)
          THEN /\ error' = Some(ErrorMessage)
               /\ isUploading' = FALSE
               /\ appState' = "preview"
               /\ IF appState = "camera"
                  THEN /\ liveStreams' \in EffectCleanup
                       /\ srcObject' = Null
                  ELSE UNCHANGED <<liveStreams, srcObject>>
          ELSE UNCHANGED <<error, isUploading, appState, liveStreams, srcObject>>
       /\ last' = [op |-> "uploadFail", alive |-> Alive(u)]
       /\ UNCHANGED <<mounted, inst, capturedImage, selectedFilter,
                      processedImage, camRequests, now>>

\* Try Again button of the error view (line 222)
TryAgain ==
    /\ TryAgainEnabled
    /\ appState' = "preview"
    /\ last' = [op |-> "tryAgain"]
    /\ UNCHANGED <<mounted, inst, capturedImage, selectedFilter, processedImage,
                   isUploading, error, camVars, upVars>>

\* Download button of the result view (lines 252-258)
Download ==
    /\ DownloadEnabled
    /\ last' = [op |-> "download", href |-> Val(processedImage)]
    /\ UNCHANGED <<mounted, inst, compState, camVars, upVars>>

\* the component is removed from the page: its state is dropped, the effect
\* cleanup runs, the calls it is awaiting stay in flight
Unmount ==
    /\ mounted
    /\ IF appState = "camera"
       THEN liveStreams' \in EffectCleanup
       ELSE liveStreams' = liveStreams
    /\ mounted' = FALSE
    /\ appState' = "camera"
    /\ capturedImage' = Null
    /\ selectedFilter' = Null
    /\ processedImage' = Null
    /\ isUploading' = FALSE
    /\ error' = Null
    /\ srcObject' = Null
    /\ last' = [op |-> "unmount"]
    /\ UNCHANGED <<inst, camRequests, upVars>>

\* the component is rendered again: a fresh instance in its initial state
\* (lines 31-39), whose effect calls startCamera
Mount ==
    /\ ~mounted
    /\ inst < MaxMounts
    /\ Cardinality(StreamsInUse) < MaxStreams
    /\ mounted' = TRUE
    /\ inst' = inst + 1
    /\ StartCamera(inst + 1)
    /\ last' = [op |-> "mount"]
    /\ UNCHANGED <<compState, srcObject, liveStreams, upVars>>

\* one visit of the page: the component stays mounted.  TryAgain is left out
\* of the next-state relation: the error view it belongs to is rendered in
\* no state these actions reach (error is set only together with appState
\* "preview", applyFilter enters "processing" only together with clearing it).
SessionNext ==
    \/ GetUserMediaResolve
    \/ GetUserMediaReject
    \/ takePicture
    \/ retakePicture
    \/ \E filterId \in FilterIds : applyFilter(filterId)
    \/ UploadSucceed
    \/ UploadFail
    \/ Download

SessionSpec == Init /\ [][SessionNext]_vars

\* the component may also be unmounted and mounted again
Next ==
    \/ SessionNext
    \/ Unmount
    \/ Mount

Spec == Init /\ [][Next]_vars

\* the storage service answers every upload call: the continuation of an
\* upload in flight is eventually run
FairSessionSpec ==
    SessionSpec /\ WF_vars(UploadSucceed \/ UploadFail)

TypeOK ==
    /\ mounted \in BOOLEAN
    /\ inst \in 1..MaxMounts
    /\ appState \in AppStates
    /\ Len(capturedImage) <= 1
    /\ selectedFilter \in {Null} \cup {Some(f) : f \in FilterIds}
    /\ Len(processedImage) <= 1
    /\ isUploading \in BOOLEAN
    /\ error \in {Null, Some(ErrorMessage)}
    /\ srcObject \in {Null} \cup {Some(s) : s \in liveStreams}
    /\ Cardinality(StreamsInUse) <= MaxStreams
    /\ now \in 0..MaxUploads

\* --------------------------------------------------------------- claims

\* C1: once the session has left the camera view (appState is "preview" or
\* "processing") or the component is unmounted, no stream obtained from
\* getUserMedia has a live track.
C1_CameraReleasedOnExit ==
    (~mounted \/ appState \in {"preview", "processing"}) => ActiveStreams = {}

\* C2: at most one camera stream has live tracks in any reachable state.
C2_AtMostOneActiveStream == Cardinality(ActiveStreams) <= 1

\* C3: at most one upload started by applyFilter is in flight.
C3_UploadsSequential == Cardinality(UploadsInFlight) <= 1

\* C4: capturedImage is set if and only if appState is "preview" or
\* "processing".
C4_RawImageIffPreviewOrProcessing ==
    mounted => (capturedImage # Null <=> appState \in {"preview", "processing"})

\* C5: processedImage is set only while appState is "processing" and error
\* is unset.
C5_ResultOnlyInProcessing ==
    processedImage # Null => (appState = "processing" /\ error = Null)

\* C6: right after a failed upload comes back to the mounted component,
\* error is the generic message, processedImage is unset and appState is
\* "preview".
C6_FailedUploadOutcome ==
    (last.op = "uploadFail" /\ last.alive) =>
        /\ error = Some(ErrorMessage)
        /\ processedImage = Null
        /\ appState = "preview"

\* C7: right after a successful upload comes back to the mounted component,
\* processedImage is set and error is unset.
C7_SuccessfulUploadOutcome ==
    (last.op = "uploadSucceed" /\ last.alive) =>
        (processedImage # Null /\ error = Null)

\* C8: right after a filter is selected processedImage is unset.
C8_FilterPickClearsResult ==
    last.op = "applyFilter" => processedImage = Null

\* C9: when applyFilter has issued its upload request, whatever error was
\* set before, error is unset, appState is "processing" and the request is
\* in flight.
C9_ErrorClearedBeforeUpload ==
    last.op = "applyFilter" =>
        /\ error = Null
        /\ appState = "processing"
        /\ \E u \in uploads :
              u.inst = inst /\ u.path = OriginalsPath(PhotoName(now))

\* C9 witness: a filter was picked while error was set, the upload is out
C9_Witness ==
    /\ last.op = "applyFilter" /\ last.hadError
    /\ \E u \in uploads : u.path = OriginalsPath(PhotoName(now))

\* C10: while an upload of the mounted component is in flight no control is
\* enabled.
C10_NoControlWhileUploading ==
    (\E u \in uploads : Alive(u)) =>
        ~(\/ ShutterEnabled \/ RetakeEnabled \/ FilterPickEnabled
          \/ TryAgainEnabled \/ TakeNewPhotoEnabled \/ DownloadEnabled)

\* C11: every step that starts an upload is taken from the preview view
\* (mounted, appState "preview", capturedImage set), and the file it uploads
\* is decoded from that capturedImage.
C11_UploadOnlyFromPreview ==
    [][\A u \in uploads' \ uploads :
          /\ mounted /\ appState = "preview" /\ capturedImage # Null
          /\ u.file.bytes = Atob(Val(capturedImage).body)]_vars

\* C11 witness: a filter pick has just started an upload
C11_Witness ==
    /\ last.op = "applyFilter" /\ ~last.hadError
    /\ appState = "processing" /\ capturedImage # Null
    /\ \E u \in uploads : Alive(u)

\* C12: every step from appState "camera" to "preview" captures a frame of a
\* live stream bound to the video (so a shutter press with no stream bound,
\* or an upload completing, never makes that step).
C12_PreviewOnlyByLiveCapture ==
    [][(mounted /\ appState = "camera" /\ mounted' /\ appState' = "preview") =>
          /\ srcObject # Null /\ Val(srcObject) \in liveStreams
          /\ last'.op = "takePicture"
          /\ capturedImage' # Null
          /\ Val(capturedImage').header = "data:image/png;base64"]_vars

\* C13: a retake step (from the preview view or from the result view) leaves
\* capturedImage and selectedFilter unset and appState "camera", and adds one
\* getUserMedia call of the mounted instance to the calls in flight.
C13_RetakeClearsAndReacquires ==
    [][last'.op = "retakePicture" =>
          /\ capturedImage' = Null
          /\ selectedFilter' = Null
          /\ appState' = "camera"
          /\ Cardinality(camRequests' \ camRequests) = 1
          /\ \A r \in camRequests' \ camRequests : r.inst = inst']_vars

\* C13 witness: Take New Photo was pressed after a filter pick and its camera
\* request is pending
C13_Witness ==
    /\ last.op = "retakePicture"
    /\ processedImage # Null
    /\ PendingCamRequests # {}

\* C14: at most one getUserMedia call is pending.
C14_CameraRequestsSequential == Cardinality(camRequests) <= 1

\* C15: whenever error is set, no upload is in flight and processedImage is
\* unset.
C15_ErrorExcludesUpload ==
    error # Null => (UploadsInFlight = {} /\ processedImage = Null)

\* C16: uploads are started by filter picks only, one per pick: a step adds
\* an upload call only if it is an applyFilter step, which adds exactly one
\* (so a failed upload is followed by no upload the user did not ask for).
C16_NoAutomaticRetry ==
    [][/\ (uploads' \ uploads # {} => last'.op = "applyFilter")
       /\ (last'.op = "applyFilter" =>
              /\ Cardinality(uploads' \ uploads) = 1
              /\ uploads \subseteq uploads')]_vars

\* C16 witness: an upload of the mounted component has failed and nothing is
\* in flight
C16_Witness ==
    /\ last.op = "uploadFail" /\ last.alive
    /\ error # Null /\ appState = "preview"
    /\ uploads = {}

\* C17: whenever the result view is shown, processedImage is the public URL
\* of the upload of the capturedImage now held, which is the upload started
\* by the latest filter pick (at time now).
C17_ResultFreshness ==
    ResultView =>
        processedImage = Some(PublicUrl(OriginalsPath(PhotoName(now))))

\* the session is at rest: mounted, with no upload awaiting its answer
AtRest == mounted /\ UploadsInFlight = {}

\* some control is rendered
SomeControlEnabled ==
    \/ ShutterEnabled \/ RetakeEnabled \/ FilterPickEnabled
    \/ TryAgainEnabled \/ TakeNewPhotoEnabled \/ DownloadEnabled

\* the upload sequence has come to its end: result shown, or error in preview
UploadResolved ==
    \/ processedImage # Null /\ appState = "processing"
    \/ error # Null /\ appState = "preview"

\* C18: every filter pick is eventually followed by a resolved upload
\* sequence, and the session never rests in a state with no control enabled.
C18_EveryUploadResolves ==
    /\ (last.op = "applyFilter") ~> UploadResolved
    /\ [](AtRest => SomeControlEnabled)

\* C19: error is never set while appState is "processing": the error view
\* and its Try Again button are never rendered.
C19_NoErrorInProcessing ==
    /\ ~(appState = "processing" /\ error # Null)
    /\ ~TryAgainEnabled

\* C19 witness: a failure has set error, together with appState "preview"
C19_Witness ==
    /\ last.op = "uploadFail" /\ last.alive
    /\ error = Some(ErrorMessage) /\ appState = "preview"
    /\ capturedImage # Null
====
